---- MODULE Spec2Model ----
(***************************************************************************)
(* Echo Flow booking API: the appointment scheduling core.                 *)
(*                                                                         *)
(* The repository holds two servers with the same routes:                  *)
(*   src/unnamed/part_000 (lines 1-473)  find-slots, book with an isFree   *)
(*                                       guard, reschedule, cancel;        *)
(*   src/server.js                       book only, no availability guard. *)
(* The variable impl says which of the two serves the requests.            *)
(*                                                                         *)
(* Instants are minutes.  A handler is cut into one action per stretch of  *)
(* code between two awaits on an external service (calendar, SMS, mail):   *)
(* JavaScript runs such a stretch without interleaving.                    *)
(***************************************************************************)
EXTENDS Integers, Sequences, FiniteSets, TLC

VARIABLES
    impl,       \* which server file handles the requests
    env,        \* process.env capabilities: [twilio, owner, sendgrid]
    tokens,     \* content of TOKENS_PATH (the credential store)
    calendar,   \* the external calendar: a set of events [id, start, end, by]
    nextId,     \* next event id the calendar gateway assigns
    pc,         \* per request: position of its handler
    req,        \* per request: the request body
    resp,       \* per request: the HTTP response, NoResp until sent
    event,      \* per request: id of the event returned by events.insert, 0 if none
    calls,      \* per request: history of the external calls made, <<name, ok>>
    avail,      \* per request: history, what the calendar held for its interval
                \*   when the handler committed to write or to refuse
    checkedAt,  \* per request: history, nextId when its free/busy query ran
    processTz,  \* offset from UTC, in minutes, of the server process's local time
    fsPc,       \* find-slots: position of the handler
    fsBody,     \* find-slots: the request body
    fsPrev,     \* find-slots: history, the outcome of the client's previous call
    fsReq,      \* find-slots: the window and slot duration of the request
    fsBusy,     \* find-slots: the busy intervals the free/busy query returned
    fsT,        \* find-slots: the loop variable t
    fsSlots,    \* find-slots: the list slots built by the loop
    fsResp,     \* find-slots: the HTTP response, NoResp until sent
    gate,       \* the gate middleware: the signing secret, the last request, its outcome
    phone,      \* e164: the last argument and its result
    decision,   \* isFree: the last interval, the busy list reported, the result
    oauth       \* the OAuth callback: its response, and history of what it did

bookVars == <<pc, req, resp, event, calls, avail, checkedAt>>
slotVars == <<fsPc, fsBody, fsPrev, fsReq, fsBusy, fsT, fsSlots, fsResp>>
unitVars == <<gate, phone, decision, oauth>>
vars == <<impl, env, tokens, calendar, nextId, processTz, bookVars, slotVars, unitVars>>

-----------------------------------------------------------------------------
(* Bounds *)

MaxEvents == 1     \* events on the calendar before the first request
MaxStart == 2      \* requested starts are Base + k*stepMin, k in 0..MaxStart-1
MaxDur == 2        \* durations are d*stepMin, d in -1..MaxDur
MaxWindowHours == 3  \* find-slots windows are 1..MaxWindowHours hours long
MaxSlotDur == 4    \* slot durations are d*15 minutes, d in -2..MaxSlotDur
LongDuration == 600  \* a slot duration longer than the business day
MaxPhoneLen == 3     \* phone numbers of 1..MaxPhoneLen characters, and the full-length ones
MaxReported == 2     \* busy intervals in one answer of the free/busy query to isFree

(* Program constants *)

stepMin == 30          \* stepMs = 30 * 60 * 1000, in minutes
DefaultDuration == 30  \* duration_minutes = 30, slotDurationMin = 30
MaxSlots == 60         \* if (slots.length >= 60) break
OpenHour == 9          \* if (hr < 9 || hr >= 18) continue
CloseHour == 18
DefaultWindowDays == 14
TIMEZONE == -300       \* "America/New_York", as minutes from UTC (standard time)

\* Instants are minutes since a Sunday 00:00 UTC.
Day == 24 * 60
Local(day, minute) == day * Day + minute - TIMEZONE   \* a business-local time
Base == Local(1, 9 * 60)                              \* Monday 09:00

-----------------------------------------------------------------------------
(* Values *)

Absent == "absent"      \* undefined, null or "" in a request body: falsy
NoResp == [status |-> 0]

\* A JSON value that is either left out or a number / a date string.
Undefined == [kind |-> "undefined", n |-> 0]
Invalid == [kind |-> "invalid", n |-> 0]   \* a string new Date() cannot parse
Value(n) == [kind |-> "value", n |-> n]

Req == {"r1", "r2"}   \* the requests of one behaviour
Starts == {Base + k * stepMin : k \in 0..(MaxStart - 1)}
Durations == {d * stepMin : d \in (-1)..MaxDur}

Bodies ==
    [customer_phone : {Absent, "phone"},
     customer_email : {Absent, "email"},
     requested_start : {Undefined, Invalid} \cup {Value(t) : t \in Starts},
     duration_minutes : {Undefined} \cup {Value(d) : d \in Durations}]

NoBody == [customer_phone |-> Absent, customer_email |-> Absent,
           requested_start |-> Undefined, duration_minutes |-> Undefined]

\* The calendars a behaviour starts from: at most MaxEvents events made before
\* the first request (by = "owner"), with the ids the gateway gave them.
Intervals ==
    {iv \in [start : Starts, end : {t + d : t \in Starts, d \in Durations}] :
        iv.end > iv.start /\ (iv.end - iv.start) \in Durations}
Before(a, b) == a.start < b.start \/ (a.start = b.start /\ a.end < b.end)
CalendarOf(ivs) ==
    {[id |-> 1 + Cardinality({o \in ivs : Before(o, iv)}),
      start |-> iv.start, end |-> iv.end, by |-> "owner"] : iv \in ivs}
InitialCalendars ==
    {CalendarOf(ivs) : ivs \in {x \in SUBSET Intervals : Cardinality(x) <= MaxEvents}}

NoWindow == [start |-> 0, end |-> 0, dur |-> 0]
NoSlotBody == [startDateTimeISO |-> Undefined, endDateTimeISO |-> Undefined,
               slotDurationMin |-> Undefined]
NoPrev == [req |-> NoWindow, busy |-> {}, resp |-> NoResp]

Impls == {"part_000", "server_js"}
Envs == [twilio : BOOLEAN, owner : BOOLEAN, sendgrid : BOOLEAN]
\* The token file: none; an access token Google accepts; a refresh token only;
\* an access token that has expired, with no refresh token to renew it.
TokenStates == {"none", "access", "refresh_only", "expired"}

-----------------------------------------------------------------------------
(* The calendar gateway *)

\* Half-open interval intersection.
Intersects(s1, e1, s2, e2) == s1 < e2 /\ e1 > s2

\* calendar.freebusy.query: the busy intervals of the calendar in [timeMin, timeMax).
FreeBusy(cal, timeMin, timeMax) ==
    {[start |-> ev.start, end |-> ev.end] :
        ev \in {x \in cal : Intersects(x.start, x.end, timeMin, timeMax)}}

\* The gateway serves a call only when the client holds a token Google accepts
\* (the client library renews an access token from a refresh token).
Authorized(tok) == tok \in {"access", "refresh_only"}

-----------------------------------------------------------------------------
(* Helpers of the handlers *)

\* requireCalendar (part_000) and the inline check of server.js: whether the
\* loaded credentials let the handler go on.
CredentialsUsable(i, tok) ==
    IF i = "part_000" THEN tok \in {"access", "refresh_only", "expired"}
    ELSE tok \in {"access", "expired"}

\* const { duration_minutes = 30 } = req.body: the default replaces undefined only.
Duration(body) ==
    IF body.duration_minutes = Undefined THEN DefaultDuration
    ELSE body.duration_minutes.n

\* new Date(requested_start).getTime() and the end computed from it, in minutes.
StartOf(body) == body.requested_start.n
EndOfDefault(body) == body.requested_start.n + DefaultDuration
EndOf(body) == body.requested_start.n + Duration(body)

\* isFree: busy.length === 0
IsFreeAlways(busy) == TRUE
isFree(busy) == busy = {}

\* if (!customer_phone || !requested_start)
MissingPhoneOnly(body) == body.customer_phone = Absent
MissingFields(body) ==
    body.customer_phone = Absent \/ body.requested_start = Undefined

\* The notification channels of book, in the order the handler tries them.
Channels == <<"sms_customer", "sms_owner", "email">>

ChannelEnabled(ch, e, body) ==
    CASE ch = "sms_customer" -> e.twilio
      [] ch = "sms_owner" -> e.twilio /\ e.owner
      [] ch = "email" -> e.sendgrid /\ body.customer_email # Absent

\* The pc after the step at position k of Channels (0: after events.insert):
\* the next enabled channel, or "respond" when none is left.
RECURSIVE NextChannel(_, _, _)
NextChannel(k, e, body) ==
    IF k >= Len(Channels) THEN "respond"
    ELSE IF ChannelEnabled(Channels[k + 1], e, body) THEN Channels[k + 1]
    ELSE NextChannel(k + 1, e, body)

ChannelIndex(ch) == CHOOSE k \in 1..Len(Channels) : Channels[k] = ch

ReplySuccess(status, kind) == [status |-> 200, kind |-> "success"]
Reply(status, kind) == [status |-> status, kind |-> kind]
Success(id, body) ==
    [status |-> 200, kind |-> "success", event_id |-> id,
     start_time |-> StartOf(body), end_time |-> EndOf(body)]

-----------------------------------------------------------------------------
(* State *)

\* No book request has arrived; the request slots in `on` may be used.
NoBooking(on) ==
    /\ pc = [r \in Req |-> IF r \in on THEN "idle" ELSE "off"]
    /\ req = [r \in Req |-> NoBody]
    /\ resp = [r \in Req |-> NoResp]
    /\ event = [r \in Req |-> 0]
    /\ calls = [r \in Req |-> <<>>]
    /\ avail = [r \in Req |-> "unchecked"]
    /\ checkedAt = [r \in Req |-> 0]

\* No request has reached the gate, no phone number was normalised, no
\* availability decision was taken.
NoGate(secret) ==
    gate = [secret |-> secret, method |-> "GET", path |-> <<>>, header |-> Absent,
            out |-> "idle"]
NoPhone == phone = [in |-> <<>>, out |-> <<>>, done |-> FALSE]
NoDecision == decision = [start |-> 0, end |-> 0, busy |-> {}, free |-> FALSE,
                          done |-> FALSE]
NoOAuth == oauth = [out |-> "idle", exchanged |-> FALSE, persisted |-> FALSE]
NoUnits == NoGate("") /\ NoPhone /\ NoDecision /\ NoOAuth

\* No find-slots request has arrived (pc "off": none will).
NoFindSlots(at) ==
    /\ fsPc = at
    /\ fsBody = NoSlotBody
    /\ fsPrev = NoPrev
    /\ fsReq = NoWindow
    /\ fsBusy = {}
    /\ fsT = 0
    /\ fsSlots = <<>>
    /\ fsResp = NoResp

\* One book request against any configuration and any starting calendar.
Init ==
    /\ impl \in Impls
    /\ env \in Envs
    /\ tokens \in TokenStates
    /\ calendar \in InitialCalendars
    /\ nextId = Cardinality(calendar) + 1
    /\ processTz = TIMEZONE
    /\ NoBooking({"r1"})
    /\ NoFindSlots("off")
    /\ NoUnits

\* The handler answers and ends.
Finish(r, answer) ==
    /\ pc' = [pc EXCEPT ![r] = "done"]
    /\ resp' = [resp EXCEPT ![r] = answer]

Log(r, name, ok) == calls' = [calls EXCEPT ![r] = Append(@, <<name, ok>>)]

\* POST /vapi/book, from the arrival of the request to the first call of the
\* calendar gateway: validation, credentials, the ISO conversion of the times.
Book(r, body) ==
    /\ pc[r] = "idle"
    /\ req' = [req EXCEPT ![r] = body]
    /\ UNCHANGED <<impl, env, tokens, calendar, nextId, event, avail, checkedAt,
                   processTz, slotVars, unitVars>>
    /\ IF MissingFields(body)
       THEN Finish(r, Reply(400, "missing_fields")) /\ UNCHANGED calls
       ELSE /\ Log(r, "loadTokens", TRUE)
            /\ IF ~CredentialsUsable(impl, tokens)
               THEN Finish(r, Reply(400, "oauth_not_connected"))
               ELSE IF body.requested_start = Invalid
               THEN Finish(r, Reply(500, "internal_error"))  \* toISOString throws
               ELSE /\ pc' = [pc EXCEPT ![r] =
                                IF impl = "part_000" THEN "freebusy" ELSE "insert"]
                    /\ UNCHANGED resp

\* await isFree(calendar, startISO, endISO) and the test on its result.
BookFreeBusy(r, ok) ==
    /\ pc[r] = "freebusy"
    /\ ok => Authorized(tokens)
    /\ Log(r, "freebusy", ok)
    /\ UNCHANGED <<impl, env, tokens, calendar, nextId, req, event,
                   processTz, slotVars, unitVars>>
    /\ IF ~ok
       THEN Finish(r, Reply(500, "internal_error")) /\ UNCHANGED <<avail, checkedAt>>
       ELSE LET busy == FreeBusy(calendar, StartOf(req[r]), EndOf(req[r])) IN
            /\ avail' = [avail EXCEPT ![r] = IF busy = {} THEN "free" ELSE "busy"]
            /\ checkedAt' = [checkedAt EXCEPT ![r] = nextId]
            /\ IF isFree(busy)
               THEN pc' = [pc EXCEPT ![r] = "insert"] /\ UNCHANGED resp
               ELSE Finish(r, Reply(409, "slot_unavailable"))

\* await calendar.events.insert(...) and the code up to the next await.
BookInsert(r, ok) ==
    /\ pc[r] = "insert"
    /\ ok => Authorized(tokens)
    /\ Log(r, "insert", ok)
    /\ UNCHANGED <<impl, env, tokens, req, checkedAt,
                   processTz, slotVars, unitVars>>
    /\ avail' = [avail EXCEPT ![r] =
                    IF @ # "unchecked" THEN @
                    ELSE IF FreeBusy(calendar, StartOf(req[r]), EndOf(req[r])) = {}
                    THEN "free" ELSE "busy"]
    /\ IF ~ok
       THEN /\ Finish(r, Reply(500, "internal_error"))
            /\ UNCHANGED <<calendar, nextId, event>>
       ELSE /\ calendar' = calendar \cup
                  {[id |-> nextId, start |-> StartOf(req[r]),
                    end |-> EndOf(req[r]), by |-> r]}
            /\ nextId' = nextId + 1
            /\ event' = [event EXCEPT ![r] = nextId]
            /\ LET next == NextChannel(0, env, req[r]) IN
               IF next = "respond"
               THEN Finish(r, Success(nextId, req[r]))
               ELSE pc' = [pc EXCEPT ![r] = next] /\ UNCHANGED resp

\* await twilioClient.messages.create(...) / await sgMail.send(...): the send
\* is inside the handler's try block, a rejection goes to its catch.
BookNotify(r, ok) ==
    /\ pc[r] \in {"sms_customer", "sms_owner", "email"}
    /\ Log(r, pc[r], ok)
    /\ UNCHANGED <<impl, env, tokens, calendar, nextId, req, event, avail, checkedAt,
                   processTz, slotVars, unitVars>>
    /\ IF ~ok
       THEN Finish(r, Reply(500, "internal_error"))
       ELSE LET next == NextChannel(ChannelIndex(pc[r]), env, req[r]) IN
            IF next = "respond"
            THEN Finish(r, Success(event[r], req[r]))
            ELSE pc' = [pc EXCEPT ![r] = next] /\ UNCHANGED resp

Next ==
    \/ \E r \in Req, body \in Bodies : Book(r, body)
    \/ \E r \in Req, ok \in BOOLEAN : BookFreeBusy(r, ok)
    \/ \E r \in Req, ok \in BOOLEAN : BookInsert(r, ok)
    \/ \E r \in Req, ok \in BOOLEAN : BookNotify(r, ok)

Spec == Init /\ [][Next]_vars

\* Two requests in flight at once against part_000, on an empty calendar.
InitRace ==
    /\ impl = "part_000"
    /\ env \in {e \in Envs : ~e.owner /\ ~e.sendgrid}
    /\ tokens = "access"
    /\ calendar = {}
    /\ nextId = 1
    /\ processTz = TIMEZONE
    /\ NoBooking(Req)
    /\ NoFindSlots("off")
    /\ NoUnits

SpecRace == InitRace /\ [][Next]_vars

-----------------------------------------------------------------------------
(* POST /vapi/reschedule and POST /vapi/cancel (part_000) *)

\* The appointment ids a request may name: those of the starting calendar and
\* one the calendar does not hold.
EventIds == 1..(MaxEvents + 1)

RescheduleBodies ==
    [appointmentId : {Undefined} \cup {Value(i) : i \in EventIds},
     newStartDateTimeISO : {Undefined, Invalid} \cup {Value(t) : t \in Starts},
     duration_minutes : {Undefined} \cup {Value(d) : d \in Durations}]
CancelBodies == [appointmentId : {Undefined} \cup {Value(i) : i \in EventIds}]

\* if (!appointmentId || !newStartDateTimeISO)
MissingReschedule(body) ==
    body.appointmentId = Undefined \/ body.newStartDateTimeISO = Undefined

\* startISO and endISO of reschedule, in minutes.
NewStartOf(body) == body.newStartDateTimeISO.n
NewEndOfDefault(body) == body.newStartDateTimeISO.n + DefaultDuration
NewEndOf(body) == body.newStartDateTimeISO.n + Duration(body)

\* if (twilioClient && process.env.OWNER_SMS && process.env.TWILIO_FROM_NUMBER)
OwnerSms(e) == e.twilio /\ e.owner

\* The gateway finds the event a patch or a delete names.
Known(cal, id) == \E ev \in cal : ev.id = id

\* calendar.events.delete: the calendar without the event of that id.
WithoutAll(cal, id) == {}
Without(cal, id) == {ev \in cal : ev.id # id}

Rescheduled(id, body) ==
    [status |-> 200, kind |-> "success", event_id |-> id,
     start_time |-> NewStartOf(body), end_time |-> NewEndOf(body)]
Cancelled == [status |-> 200, kind |-> "success"]

\* POST /vapi/reschedule up to the free/busy query.
Reschedule(r, body) ==
    /\ pc[r] = "idle"
    /\ impl = "part_000"
    /\ req' = [req EXCEPT ![r] = body]
    /\ UNCHANGED <<impl, env, tokens, calendar, nextId, event, avail, checkedAt,
                   processTz, slotVars, unitVars>>
    /\ IF MissingReschedule(body)
       THEN Finish(r, Reply(400, "missing_fields")) /\ UNCHANGED calls
       ELSE /\ Log(r, "loadTokens", TRUE)
            /\ IF ~CredentialsUsable(impl, tokens)
               THEN Finish(r, Reply(400, "oauth_not_connected"))
               ELSE IF body.newStartDateTimeISO = Invalid
               THEN Finish(r, Reply(500, "internal_error"))  \* toISOString throws
               ELSE pc' = [pc EXCEPT ![r] = "rs_freebusy"] /\ UNCHANGED resp

\* const free = await isFree(calendar, startISO, endISO) and the test on it.
RescheduleFreeBusy(r, ok) ==
    /\ pc[r] = "rs_freebusy"
    /\ ok => Authorized(tokens)
    /\ Log(r, "freebusy", ok)
    /\ UNCHANGED <<impl, env, tokens, calendar, nextId, req, event,
                   processTz, slotVars, unitVars>>
    /\ IF ~ok
       THEN Finish(r, Reply(500, "internal_error")) /\ UNCHANGED <<avail, checkedAt>>
       ELSE LET busy == FreeBusy(calendar, NewStartOf(req[r]), NewEndOf(req[r])) IN
            /\ avail' = [avail EXCEPT ![r] = IF busy = {} THEN "free" ELSE "busy"]
            /\ checkedAt' = [checkedAt EXCEPT ![r] = nextId]
            /\ IF isFree(busy)
               THEN pc' = [pc EXCEPT ![r] = "patch"] /\ UNCHANGED resp
               ELSE Finish(r, Reply(409, "slot_unavailable"))

\* await calendar.events.patch(...) and the code up to the next await.
ReschedulePatch(r, ok) ==
    /\ pc[r] = "patch"
    /\ ok => Authorized(tokens) /\ Known(calendar, req[r].appointmentId.n)
    /\ Log(r, "patch", ok)
    /\ UNCHANGED <<impl, env, tokens, nextId, req, avail, checkedAt,
                   processTz, slotVars, unitVars>>
    /\ IF ~ok
       THEN Finish(r, Reply(500, "internal_error")) /\ UNCHANGED <<calendar, event>>
       ELSE /\ calendar' =
                 {IF ev.id = req[r].appointmentId.n
                  THEN [ev EXCEPT !.start = NewStartOf(req[r]),
                                  !.end = NewEndOf(req[r]), !.by = r]
                  ELSE ev : ev \in calendar}
            /\ event' = [event EXCEPT ![r] = req[r].appointmentId.n]
            /\ IF OwnerSms(env)
               THEN pc' = [pc EXCEPT ![r] = "rs_notify"] /\ UNCHANGED resp
               ELSE Finish(r, Rescheduled(req[r].appointmentId.n, req[r]))

\* await twilioClient.messages.create(...) to the owner, then the response.
RescheduleNotify(r, ok) ==
    /\ pc[r] = "rs_notify"
    /\ Log(r, "sms_owner", ok)
    /\ UNCHANGED <<impl, env, tokens, calendar, nextId, req, event, avail, checkedAt,
                   processTz, slotVars, unitVars>>
    /\ IF ~ok
       THEN Finish(r, Reply(500, "internal_error"))
       ELSE Finish(r, Rescheduled(event[r], req[r]))

\* POST /vapi/cancel up to the delete.
Cancel(r, body) ==
    /\ pc[r] = "idle"
    /\ impl = "part_000"
    /\ req' = [req EXCEPT ![r] = body]
    /\ UNCHANGED <<impl, env, tokens, calendar, nextId, event, avail, checkedAt,
                   processTz, slotVars, unitVars>>
    /\ IF body.appointmentId = Undefined
       THEN Finish(r, Reply(400, "missing_fields")) /\ UNCHANGED calls
       ELSE /\ Log(r, "loadTokens", TRUE)
            /\ IF ~CredentialsUsable(impl, tokens)
               THEN Finish(r, Reply(400, "oauth_not_connected"))
               ELSE pc' = [pc EXCEPT ![r] = "delete"] /\ UNCHANGED resp

\* await calendar.events.delete(...) and the code up to the next await.
CancelDelete(r, ok) ==
    /\ pc[r] = "delete"
    /\ ok => Authorized(tokens) /\ Known(calendar, req[r].appointmentId.n)
    /\ Log(r, "delete", ok)
    /\ UNCHANGED <<impl, env, tokens, nextId, req, avail, checkedAt,
                   processTz, slotVars, unitVars>>
    /\ IF ~ok
       THEN Finish(r, Reply(500, "internal_error")) /\ UNCHANGED <<calendar, event>>
       ELSE /\ calendar' = Without(calendar, req[r].appointmentId.n)
            /\ event' = [event EXCEPT ![r] = req[r].appointmentId.n]
            /\ IF OwnerSms(env)
               THEN pc' = [pc EXCEPT ![r] = "cn_notify"] /\ UNCHANGED resp
               ELSE Finish(r, Cancelled)

\* await twilioClient.messages.create(...) to the owner, then the response.
CancelNotify(r, ok) ==
    /\ pc[r] = "cn_notify"
    /\ Log(r, "sms_owner", ok)
    /\ UNCHANGED <<impl, env, tokens, calendar, nextId, req, event, avail, checkedAt,
                   processTz, slotVars, unitVars>>
    /\ IF ~ok
       THEN Finish(r, Reply(500, "internal_error"))
       ELSE Finish(r, Cancelled)

NextManage ==
    \/ \E r \in Req, body \in RescheduleBodies : Reschedule(r, body)
    \/ \E r \in Req, ok \in BOOLEAN : RescheduleFreeBusy(r, ok)
    \/ \E r \in Req, ok \in BOOLEAN : ReschedulePatch(r, ok)
    \/ \E r \in Req, ok \in BOOLEAN : RescheduleNotify(r, ok)
    \/ \E r \in Req, body \in CancelBodies : Cancel(r, body)
    \/ \E r \in Req, ok \in BOOLEAN : CancelDelete(r, ok)
    \/ \E r \in Req, ok \in BOOLEAN : CancelNotify(r, ok)

\* One reschedule or cancel request against part_000 and any starting calendar.
InitManage ==
    /\ impl = "part_000"
    /\ env \in {e \in Envs : ~e.sendgrid}
    /\ tokens \in TokenStates
    /\ calendar \in InitialCalendars
    /\ nextId = Cardinality(calendar) + 1
    /\ processTz = TIMEZONE
    /\ NoBooking({"r1"})
    /\ NoFindSlots("off")
    /\ NoUnits

SpecManage == InitManage /\ [][NextManage]_vars

\* Requests that follow one another: each of book, reschedule and cancel runs
\* to its response before the next request arrives (r1, then r2).
Turn(r) ==
    /\ pc[r] = "idle"
    /\ \A q \in Req \ {r} : pc[q] \in {"idle", "done"}
    /\ r = "r2" => pc["r1"] = "done"

\* Their inputs: complete bodies with a positive duration, and one start more
\* than Starts, so that a free interval is left beside two events.
SerialStarts == Starts \cup {Base + MaxStart * stepMin}
PositiveDurations == {d \in Durations : d > 0}
SerialBookBodies ==
    [customer_phone : {"phone"},
     customer_email : {Absent},
     requested_start : {Value(t) : t \in SerialStarts},
     duration_minutes : {Value(d) : d \in PositiveDurations}]
SerialRescheduleBodies ==
    [appointmentId : {Value(i) : i \in EventIds},
     newStartDateTimeISO : {Value(t) : t \in SerialStarts},
     duration_minutes : {Value(d) : d \in PositiveDurations}]
SerialCancelBodies == [appointmentId : {Undefined} \cup {Value(i) : i \in EventIds}]
SerialEnvs == {e \in Envs : ~e.sendgrid /\ e.twilio /\ e.owner}

\* Their starting calendars: those with no two events overlapping.
SerialCalendars ==
    {cal \in InitialCalendars :
        \A a \in cal, b \in cal :
            a.id # b.id => ~Intersects(a.start, a.end, b.start, b.end)}

NextSerial ==
    \/ \E r \in Req, body \in SerialBookBodies : Turn(r) /\ Book(r, body)
    \/ \E r \in Req, ok \in BOOLEAN : BookFreeBusy(r, ok)
    \/ \E r \in Req, ok \in BOOLEAN : BookInsert(r, ok)
    \/ \E r \in Req, ok \in BOOLEAN : BookNotify(r, ok)
    \/ \E r \in Req, body \in SerialRescheduleBodies : Turn(r) /\ Reschedule(r, body)
    \/ \E r \in Req, ok \in BOOLEAN : RescheduleFreeBusy(r, ok)
    \/ \E r \in Req, ok \in BOOLEAN : ReschedulePatch(r, ok)
    \/ \E r \in Req, ok \in BOOLEAN : RescheduleNotify(r, ok)
    \/ \E r \in Req, body \in SerialCancelBodies : Turn(r) /\ Cancel(r, body)
    \/ \E r \in Req, ok \in BOOLEAN : CancelDelete(r, ok)
    \/ \E r \in Req, ok \in BOOLEAN : CancelNotify(r, ok)

\* Two requests, one after the other, with credentials stored, against either
\* server and any starting calendar.
InitSerial ==
    /\ impl \in Impls
    /\ env \in SerialEnvs
    /\ tokens = "access"
    /\ calendar \in SerialCalendars
    /\ nextId = Cardinality(calendar) + 1
    /\ processTz = TIMEZONE
    /\ NoBooking(Req)
    /\ NoFindSlots("off")
    /\ NoUnits

SpecSerial == InitSerial /\ [][NextSerial]_vars

-----------------------------------------------------------------------------
(* POST /vapi/find-slots (part_000) *)

\* d.getDay() (0 Sun .. 6 Sat) and d.getHours() of the instant t: both are
\* read in the local time of the process, whose offset from UTC is tz.
getDay(t, tz) == ((t + tz) \div Day) % 7
getHours(t, tz) == ((t + tz) % Day) \div 60

\* overlaps(s, e): busy.some(b => s < be && e > bs)
OverlapsStartOnly(s, e, busy) == \E b \in busy : s >= b.start /\ s < b.end
overlaps(s, e, busy) == \E b \in busy : s < b.end /\ e > b.start

\* const slots = []
KeepSlots == fsSlots
NewSlots == <<>>

\* t += stepMs
NextCandidate(t) == t + stepMin

\* if (slots.length >= 60) break
FullAfter(slots) == Len(slots) > MaxSlots
Full(slots) == Len(slots) >= MaxSlots

\* The candidate filter of the loop body: the day and the hour of the start.
InBusinessHours(t, tz) ==
    /\ ~(getDay(t, tz) = 0 \/ getDay(t, tz) = 6)
    /\ ~(getHours(t, tz) < OpenHour \/ getHours(t, tz) >= CloseHour)

\* The request bodies of find-slots.
WindowStarts ==
    {Local(1, m) : m \in {4 * 60, 8 * 60 + 30, 9 * 60, 17 * 60}}
    \cup {Local(5, 17 * 60), Local(6, 9 * 60), Local(0, 17 * 60)}
WindowLengths == {60 * h : h \in 1..MaxWindowHours}
SlotDurations == {15 * d : d \in (-2)..MaxSlotDur} \cup {LongDuration}
Nows == {Base, Base + stepMin}    \* the clock, for a request that leaves the window out
SlotBodies ==
    {[startDateTimeISO |-> Value(t), endDateTimeISO |-> Value(t + l),
      slotDurationMin |-> d] :
        t \in WindowStarts, l \in WindowLengths,
        d \in {Undefined} \cup {Value(x) : x \in SlotDurations}}
    \cup
    [startDateTimeISO : {Undefined, Invalid},
     endDateTimeISO : {Value(Base + l) : l \in WindowLengths},
     slotDurationMin : {Undefined} \cup {Value(x) : x \in SlotDurations}]
    \cup
    [startDateTimeISO : {Undefined, Invalid},
     endDateTimeISO : {Undefined},
     slotDurationMin : {Undefined, Value(2 * DefaultDuration)}]

\* The bodies that give the window's end; the others get the 14-day default.
WindowedBodies == {body \in SlotBodies : body.endDateTimeISO # Undefined}

\* The calendars a find-slots behaviour starts from: events on Monday morning.
SlotIntervals ==
    {[start |-> Base, end |-> Base + 45], [start |-> Base + 30, end |-> Base + 60]}
SlotCalendars ==
    {CalendarOf(ivs) : ivs \in {x \in SUBSET SlotIntervals : Cardinality(x) <= MaxEvents}}

\* calendar.freebusy.query as find-slots sees it: the gateway may report each
\* busy interval whole or cut to the queried range.
Max(a, b) == IF a > b THEN a ELSE b
Min(a, b) == IF a < b THEN a ELSE b
Clipped(busy, timeMin, timeMax) ==
    {[start |-> Max(b.start, timeMin), end |-> Min(b.end, timeMax)] : b \in busy}

\* The handler up to the free/busy query: requireCalendar, the window.
FindSlotsStart(body, now) ==
    /\ UNCHANGED <<impl, env, tokens, calendar, nextId, processTz, bookVars, unitVars,
                   fsBusy, fsT, fsSlots>>
    /\ IF ~CredentialsUsable(impl, tokens)
       THEN /\ fsPc' = "done"
            /\ fsResp' = Reply(400, "oauth_not_connected")
            /\ UNCHANGED fsReq
       ELSE IF body.startDateTimeISO = Invalid
       THEN /\ fsPc' = "done"                       \* start.toISOString() throws
            /\ fsResp' = Reply(500, "internal_error")
            /\ UNCHANGED fsReq
       ELSE /\ fsPc' = "freebusy"
            /\ fsReq' =
                 [start |-> IF body.startDateTimeISO = Undefined THEN now
                            ELSE body.startDateTimeISO.n,
                  end |-> IF body.endDateTimeISO = Undefined
                          THEN now + DefaultWindowDays * Day
                          ELSE body.endDateTimeISO.n,
                  dur |-> IF body.slotDurationMin = Undefined THEN DefaultDuration
                          ELSE body.slotDurationMin.n]
            /\ fsResp' = NoResp

\* A find-slots request arrives.
FindSlots(body, now) ==
    /\ fsPc = "idle"
    /\ fsBody' = body
    /\ UNCHANGED fsPrev
    /\ FindSlotsStart(body, now)

\* The client sends the same request once more, after the answer to the first.
FindSlotsAgain(now) ==
    /\ fsPc = "done"
    /\ fsPrev = NoPrev
    /\ fsPrev' = [req |-> fsReq, busy |-> fsBusy, resp |-> fsResp]
    /\ UNCHANGED fsBody
    /\ FindSlotsStart(fsBody, now)

\* await calendar.freebusy.query(...) and the code up to the loop.
FindSlotsFreeBusy(ok, clip) ==
    /\ fsPc = "freebusy"
    /\ ok => Authorized(tokens)
    /\ UNCHANGED <<impl, env, tokens, calendar, nextId, processTz, bookVars, unitVars,
                   fsReq, fsBody, fsPrev>>
    /\ IF ~ok
       THEN /\ fsPc' = "done"
            /\ fsResp' = Reply(500, "internal_error")
            /\ UNCHANGED <<fsBusy, fsT, fsSlots>>
       ELSE LET whole == FreeBusy(calendar, fsReq.start, fsReq.end) IN
            /\ fsBusy' = IF clip THEN Clipped(whole, fsReq.start, fsReq.end) ELSE whole
            /\ fsSlots' = NewSlots
            /\ fsT' = fsReq.start          \* let t = start.getTime()
            /\ fsPc' = "loop"
            /\ UNCHANGED fsResp

\* One turn of for (t = start; t < end; t += stepMs) { ... }: the test, the
\* body, the increment; res.json({ success: true, slots }) when the loop ends.
FindSlotsLoop ==
    /\ fsPc = "loop"
    /\ UNCHANGED <<impl, env, tokens, calendar, nextId, processTz, bookVars, unitVars,
                   fsReq, fsBusy, fsBody, fsPrev>>
    /\ LET s == fsT
           e == fsT + fsReq.dur
           pushed == IF InBusinessHours(fsT, processTz) /\ ~overlaps(s, e, fsBusy)
                     THEN Append(fsSlots, [start |-> s, end |-> e])
                     ELSE fsSlots
           respond(slots) ==
               /\ fsPc' = "done"
               /\ fsResp' = [status |-> 200, kind |-> "success", slots |-> slots]
       IN  IF ~(fsT < fsReq.end)
           THEN respond(fsSlots) /\ UNCHANGED <<fsT, fsSlots>>
           ELSE /\ fsSlots' = pushed
                /\ IF InBusinessHours(fsT, processTz) /\ Full(pushed)
                   THEN respond(pushed) /\ UNCHANGED fsT          \* break
                   ELSE /\ fsT' = NextCandidate(fsT)
                        /\ UNCHANGED <<fsPc, fsResp>>

NextSlots ==
    \/ \E body \in WindowedBodies, now \in Nows : FindSlots(body, now)
    \/ \E now \in Nows : FindSlotsAgain(now)
    \/ \E ok \in BOOLEAN, clip \in BOOLEAN : FindSlotsFreeBusy(ok, clip)
    \/ FindSlotsLoop

\* The timezones the server process may run in: the business timezone, UTC, or
\* a zone east of UTC (the TZ of the host, not set by the code).
EastOfUtc == 9 * 60
ProcessZones == {TIMEZONE, 0, EastOfUtc}

\* One find-slots request, repeated at most once.
InitSlots ==
    /\ impl = "part_000"
    /\ env = [twilio |-> FALSE, owner |-> FALSE, sendgrid |-> FALSE]
    /\ tokens \in {"none", "access", "expired"}
    /\ calendar \in SlotCalendars
    /\ nextId = Cardinality(calendar) + 1
    /\ processTz \in ProcessZones
    /\ NoBooking({})
    /\ NoFindSlots("idle")
    /\ NoUnits

SpecSlots == InitSlots /\ [][NextSlots]_vars

\* The handler runs to its response: the event loop resumes it after each
\* await, and the gateway answers or fails.
NextSlotsOnce ==
    \/ \E body \in SlotBodies, now \in Nows : FindSlots(body, now)
    \/ \E ok \in BOOLEAN, clip \in BOOLEAN : FindSlotsFreeBusy(ok, clip)
    \/ FindSlotsLoop
SpecSlotsFair ==
    /\ InitSlots
    /\ [][NextSlotsOnce]_vars
    /\ WF_vars(\E ok \in BOOLEAN, clip \in BOOLEAN : FindSlotsFreeBusy(ok, clip))
    /\ WF_vars(FindSlotsLoop)

-----------------------------------------------------------------------------
(* GET /oauth/google/callback and the credential store *)

\* The tokens o.getToken(code) returns for a code Google accepts.
Granted == "access"

\* TOKENS_PATH after an fs.writeFileSync that failed: the file as it was, or
\* cut short (it no longer parses, and loadTokens sets no credentials).
AfterFailedWrite(tok) == {tok, "none"}

\* saveTokens: whether a failed write reaches the caller (part_000 catches it).
SaveThrows(i) == i = "server_js"

\* The callback: the exchange of the code, saveTokens, the response.
OAuthCallback(exchanged, written, left) ==
    /\ oauth.out = "idle"
    /\ left \in AfterFailedWrite(tokens)
    /\ UNCHANGED <<impl, env, calendar, nextId, processTz, bookVars, slotVars,
                   gate, phone, decision>>
    /\ IF ~exchanged
       THEN /\ oauth' = [out |-> "error", exchanged |-> FALSE, persisted |-> FALSE]
            /\ UNCHANGED tokens
       ELSE IF written
       THEN /\ oauth' = [out |-> "connected", exchanged |-> TRUE, persisted |-> TRUE]
            /\ tokens' = Granted
       ELSE /\ oauth' = [out |-> IF SaveThrows(impl) THEN "error" ELSE "connected",
                         exchanged |-> TRUE, persisted |-> FALSE]
            /\ tokens' = left

\* The next request after the callback's response: one of book, reschedule,
\* cancel and find-slots.
AfterCallback ==
    /\ oauth.out # "idle"
    /\ fsPc = "idle"
    /\ \A r \in Req : pc[r] \in {"idle", "off"}

CallbackSlotBodies ==
    {body \in WindowedBodies :
        body.startDateTimeISO = Value(Base) /\ body.slotDurationMin = Undefined}

NextOAuth ==
    \/ \E exchanged \in BOOLEAN, written \in BOOLEAN, left \in TokenStates :
         OAuthCallback(exchanged, written, left)
    \/ \E r \in Req, body \in SerialBookBodies : AfterCallback /\ Book(r, body)
    \/ \E r \in Req, ok \in BOOLEAN : BookFreeBusy(r, ok)
    \/ \E r \in Req, ok \in BOOLEAN : BookInsert(r, ok)
    \/ \E r \in Req, ok \in BOOLEAN : BookNotify(r, ok)
    \/ \E r \in Req, body \in SerialRescheduleBodies :
         AfterCallback /\ Reschedule(r, body)
    \/ \E r \in Req, ok \in BOOLEAN : RescheduleFreeBusy(r, ok)
    \/ \E r \in Req, ok \in BOOLEAN : ReschedulePatch(r, ok)
    \/ \E r \in Req, ok \in BOOLEAN : RescheduleNotify(r, ok)
    \/ \E r \in Req, body \in SerialCancelBodies : AfterCallback /\ Cancel(r, body)
    \/ \E r \in Req, ok \in BOOLEAN : CancelDelete(r, ok)
    \/ \E r \in Req, ok \in BOOLEAN : CancelNotify(r, ok)
    \/ \E body \in CallbackSlotBodies, now \in Nows :
         AfterCallback /\ impl = "part_000" /\ FindSlots(body, now)
    \/ \E ok \in BOOLEAN, clip \in BOOLEAN : FindSlotsFreeBusy(ok, clip)
    \/ FindSlotsLoop

\* One callback, then one request, against either server and any content of
\* the credential store.
InitOAuth ==
    /\ impl \in Impls
    /\ env \in SerialEnvs
    /\ tokens \in TokenStates
    /\ calendar \in InitialCalendars
    /\ nextId = Cardinality(calendar) + 1
    /\ processTz = TIMEZONE
    /\ NoBooking({"r1"})
    /\ NoFindSlots("idle")
    /\ NoUnits

SpecOAuth == InitOAuth /\ [][NextOAuth]_vars

-----------------------------------------------------------------------------
(* The middleware in front of the routes *)

\* A request path is the sequence of its segments: "/" is <<>>, "/vapi/book"
\* is <<"vapi", "book">>.
Paths ==
    {<<>>, <<"health">>, <<"oauth">>, <<"oauth", "google", "start">>,
     <<"oauth", "google", "callback">>, <<"twilio", "inbound">>, <<"cron", "tick">>,
     <<"vapi">>, <<"vapi", "find-slots">>, <<"vapi", "book">>,
     <<"vapi", "reschedule">>, <<"vapi", "cancel">>, <<"vapi", "send-message">>,
     <<"vapi", "handoff">>}
Methods == {"GET", "POST", "OPTIONS"}
Secrets == {"", "s3cret"}              \* process.env.APP_SIGNING_SECRET, "" when unset
Headers == {Absent, "s3cret", "wrong"}   \* req.get("x-app-secret")

\* req.path.startsWith("/" + seg + "/")
StartsWith(path, seg) == Len(path) >= 2 /\ path[1] = seg

\* The routes registered before the gate, which answer without calling next().
ServedBeforeGate(i, method, path) ==
    /\ method = "GET"
    /\ \/ path = <<>>
       \/ i = "part_000" /\ path = <<"health">>

\* The paths the gate lets through whatever the header.
Exempt(i, path) ==
    \/ StartsWith(path, "oauth")
    \/ StartsWith(path, "twilio")
    \/ i = "part_000" /\ (StartsWith(path, "cron") \/ path = <<>> \/ path = <<"health">>)

\* What the middleware chain does with a request: "204" (the CORS middleware
\* of part_000 answers OPTIONS), "served" (a health route answers), "401"
\* (the gate answers), "next" (the gate calls next(): the route handler runs).
Gate(i, method, path, secret, header) ==
    IF i = "part_000" /\ method = "OPTIONS" THEN "204"
    ELSE IF ServedBeforeGate(i, method, path) THEN "served"
    ELSE IF Exempt(i, path) THEN "next"
    ELSE IF secret = "" THEN "next"
    ELSE IF header = secret THEN "next"
    ELSE "401"

\* A request arrives and goes through the middleware chain.
GateRequest(method, path, header) ==
    /\ gate' = [secret |-> gate.secret, method |-> method, path |-> path,
                header |-> header,
                out |-> Gate(impl, method, path, gate.secret, header)]
    /\ UNCHANGED <<impl, env, tokens, calendar, nextId, processTz, bookVars, slotVars,
                   phone, decision, oauth>>

NextGate == \E method \in Methods, path \in Paths, header \in Headers :
                GateRequest(method, path, header)

\* Either server file, with or without a signing secret.
InitGate ==
    /\ impl \in Impls
    /\ env = [twilio |-> FALSE, owner |-> FALSE, sendgrid |-> FALSE]
    /\ tokens = "none"
    /\ calendar = {}
    /\ nextId = 1
    /\ processTz = TIMEZONE
    /\ NoBooking({})
    /\ NoFindSlots("off")
    /\ \E secret \in Secrets : NoGate(secret)
    /\ NoPhone
    /\ NoDecision
    /\ NoOAuth

SpecGate == InitGate /\ [][NextGate]_vars

-----------------------------------------------------------------------------
(* e164: the phone number a customer SMS is sent to *)

\* A string is the sequence of its characters.
Digits == {"0", "1", "2", "3", "4", "5", "6", "7", "8", "9"}
PhoneChars == {"1", "8", "+", "-", "\\", "D"}
LocalNumber == <<"8", "1", "3", "5", "5", "5", "1", "2", "3", "4">>
Phones ==
    {p \in UNION {[1..n -> PhoneChars] : n \in 1..MaxPhoneLen} : TRUE}
    \cup {LocalNumber, <<"1">> \o LocalNumber, <<"+", "1">> \o LocalNumber,
          <<"8", "1", "3", "-">> \o SubSeq(LocalNumber, 4, 10)}

\* String(p).replace(/\D/g, ""): every character that is not a digit removed.
IsDigit(c) == c \in Digits
OnlyDigits(p) == SelectSeq(p, IsDigit)

\* String(p).replace(/\\D/g, "") of server.js: the pattern is a backslash
\* followed by the letter D, and every occurrence of that pair is removed.
RECURSIVE WithoutBackslashD(_)
WithoutBackslashD(p) ==
    IF Len(p) < 2 THEN p
    ELSE IF p[1] = "\\" /\ p[2] = "D" THEN WithoutBackslashD(SubSeq(p, 3, Len(p)))
    ELSE <<p[1]>> \o WithoutBackslashD(Tail(p))

\* digits.startsWith("1") / String(p).startsWith("+")
FirstIs(p, c) == p # <<>> /\ p[1] = c

e164(i, p) ==
    IF i = "part_000"
    THEN LET digits == OnlyDigits(p) IN
         IF FirstIs(digits, "1") THEN <<"+">> \o digits ELSE <<"+", "1">> \o digits
    ELSE IF FirstIs(p, "+") THEN p ELSE <<"+", "1">> \o WithoutBackslashD(p)

\* A handler normalises a customer's phone number.
Normalize(p) ==
    /\ ~phone.done
    /\ phone' = [in |-> p, out |-> e164(impl, p), done |-> TRUE]
    /\ UNCHANGED <<impl, env, tokens, calendar, nextId, processTz, bookVars, slotVars,
                   gate, decision, oauth>>

NextPhone == \E p \in Phones : Normalize(p)

InitPhone ==
    /\ impl \in Impls
    /\ env = [twilio |-> TRUE, owner |-> FALSE, sendgrid |-> FALSE]
    /\ tokens = "access"
    /\ calendar = {}
    /\ nextId = 1
    /\ processTz = TIMEZONE
    /\ NoBooking({})
    /\ NoFindSlots("off")
    /\ NoUnits

SpecPhone == InitPhone /\ [][NextPhone]_vars

-----------------------------------------------------------------------------
(* isFree: the availability decision of book and reschedule *)

\* The busy intervals an answer of calendar.freebusy.query may hold for the
\* range [timeMin, timeMax]: the code does not fix whether the gateway reads
\* the range's ends as inside or outside, so an interval that ends at timeMin
\* or starts at timeMax may be reported.
ReportTimes == {Base + k * stepMin : k \in (-1)..(MaxStart + MaxDur)}
Reportable(timeMin, timeMax) ==
    {b \in [start : ReportTimes, end : ReportTimes] :
        b.start < b.end /\ b.start <= timeMax /\ b.end >= timeMin}
Reports(timeMin, timeMax) ==
    {busy \in SUBSET Reportable(timeMin, timeMax) : Cardinality(busy) <= MaxReported}

\* isFree(calendar, startISO, endISO) with the answer the gateway gave.
Decide(start, end, busy) ==
    /\ ~decision.done
    /\ decision' = [start |-> start, end |-> end, busy |-> busy,
                    free |-> isFree(busy), done |-> TRUE]
    /\ UNCHANGED <<impl, env, tokens, calendar, nextId, processTz, bookVars, slotVars,
                   gate, phone, oauth>>

NextDecide ==
    \E start \in Starts, d \in {x \in Durations : x > 0} :
        \E busy \in Reports(start, start + d) : Decide(start, start + d, busy)

InitDecide ==
    /\ impl = "part_000"
    /\ env = [twilio |-> FALSE, owner |-> FALSE, sendgrid |-> FALSE]
    /\ tokens = "access"
    /\ calendar = {}
    /\ nextId = 1
    /\ processTz = TIMEZONE
    /\ NoBooking({})
    /\ NoFindSlots("off")
    /\ NoUnits

SpecDecide == InitDecide /\ [][NextDecide]_vars

-----------------------------------------------------------------------------
(* Properties of book *)

Started(r) == pc[r] \notin {"idle", "off"}
Made(r, name) == \E i \in DOMAIN calls[r] : calls[r][i][1] = name
AllOk(r) == \A i \in DOMAIN calls[r] : calls[r][i][2]
EventsBy(r) == {ev \in calendar : ev.by = r}
RequestedDuration(r) ==
    IF req[r].duration_minutes.kind = "value" THEN req[r].duration_minutes.n ELSE 30

\* C1: a book request whose interval overlaps a busy interval of the calendar
\* (seen when the handler decides to write or to refuse) never inserts an event,
\* and, no external call having failed, is answered 409 slot_unavailable.
C1_BusyIntervalIsRefused ==
    \A r \in Req :
        avail[r] = "busy" =>
            /\ event[r] = 0
            /\ EventsBy(r) = {}
            /\ (pc[r] = "done" /\ AllOk(r)) => resp[r] = Reply(409, "slot_unavailable")

\* C2: under part_000, two events made by two book requests overlap only when
\* each request ran its free/busy query before the other's insert: the double
\* booking comes from the unserialized check-then-write, and from nothing else.
C2_DoubleBookingOnlyByRace ==
    \A a \in calendar, b \in calendar :
        (/\ a.id # b.id
         /\ a.by \in Req /\ b.by \in Req
         /\ Intersects(a.start, a.end, b.start, b.end))
        => (a.id >= checkedAt[b.by] /\ b.id >= checkedAt[a.by])

\* C2, the case: both requests saw the interval free on the empty calendar, both
\* inserted, and the calendar holds two overlapping events; both were answered 200.
C2_DoubleBooked ==
    \E a \in calendar, b \in calendar :
        /\ a.by = "r1" /\ b.by = "r2"
        /\ a.start < a.end /\ b.start < b.end
        /\ a.start < b.end /\ a.end > b.start
        /\ avail["r1"] = "free" /\ avail["r2"] = "free"
        /\ checkedAt["r1"] = 1 /\ checkedAt["r2"] = 1
        /\ resp["r1"].status = 200 /\ resp["r2"].status = 200

\* C3: once events.insert has succeeded, the request ends with the success
\* response and the event stays on the calendar, whatever the notifications do
\* (stated for a booking of positive length on a free interval).
C3_InsertedBookingSucceeds ==
    \A r \in Req :
        (/\ event[r] # 0 /\ pc[r] = "done"
         /\ avail[r] = "free" /\ RequestedDuration(r) > 0) =>
            /\ resp[r].status = 200 /\ resp[r].kind = "success"
            /\ \E ev \in calendar : ev.id = event[r]

\* C4: after the insert, every enabled notification channel is attempted,
\* whether or not another channel's send failed (stated for a booking of
\* positive length on a free interval).
C4_EveryEnabledChannelAttempted ==
    \A r \in Req :
        (/\ event[r] # 0 /\ pc[r] = "done"
         /\ avail[r] = "free" /\ RequestedDuration(r) > 0) =>
            \A k \in DOMAIN Channels :
                ChannelEnabled(Channels[k], env, req[r]) => Made(r, Channels[k])

\* C7: a book request without customer_phone or without requested_start is
\* answered 400 missing_fields, having made no external call (no credential
\* load, no free/busy query, no insert, no notification) and written no event.
C7_MissingFieldsBeforeAnyCall ==
    \A r \in Req :
        (/\ Started(r)
         /\ (req[r].customer_phone = Absent \/ req[r].requested_start.kind = "undefined"))
        => /\ pc[r] = "done"
           /\ resp[r] = [status |-> 400, kind |-> "missing_fields"]
           /\ calls[r] = <<>>
           /\ event[r] = 0
           /\ EventsBy(r) = {}

\* C7, the case: a request that has a phone but no requested_start was refused
\* while credentials were stored and the calendar held an event.
C7_MissingStartRefused ==
    /\ pc["r1"] = "done"
    /\ req["r1"].customer_phone # Absent
    /\ req["r1"].requested_start.kind = "undefined"
    /\ resp["r1"].kind = "missing_fields"
    /\ tokens = "access"
    /\ calendar # {}

\* C8: a book request with phone and a valid start, with an access token stored,
\* whose interval was free and whose external calls all succeeded, ends in
\* success: it inserted exactly one event, over [start, start + duration), and
\* the response carries that event's id, start and end.
C8_FreeSlotIsBooked ==
    \A r \in Req :
        (/\ pc[r] = "done"
         /\ req[r].customer_phone # Absent
         /\ req[r].requested_start.kind = "value"
         /\ tokens = "access"
         /\ avail[r] = "free"
         /\ AllOk(r))
        => /\ Cardinality(EventsBy(r)) = 1
           /\ Cardinality({i \in DOMAIN calls[r] : calls[r][i][1] = "insert"}) = 1
           /\ \A ev \in EventsBy(r) :
                /\ ev.start = req[r].requested_start.n
                /\ ev.end = req[r].requested_start.n + RequestedDuration(r)
                /\ resp[r] = [status |-> 200, kind |-> "success", event_id |-> ev.id,
                              start_time |-> ev.start, end_time |-> ev.end]

\* C8, the case: a 60-minute booking made next to an existing event, with
\* every notification channel used.
C8_Booked ==
    /\ pc["r1"] = "done"
    /\ resp["r1"].kind = "success"
    /\ req["r1"].duration_minutes = Value(60)
    /\ \E ev \in calendar : ev.by = "owner"
    /\ Made("r1", "sms_customer") /\ Made("r1", "sms_owner") /\ Made("r1", "email")

\* C9: a book request whose duration_minutes is zero or negative is answered
\* 400 missing_fields before any external call.
C9_NonPositiveDurationRejected ==
    \A r \in Req :
        (/\ Started(r)
         /\ req[r].customer_phone # Absent
         /\ req[r].requested_start.kind = "value"
         /\ req[r].duration_minutes.kind = "value"
         /\ req[r].duration_minutes.n <= 0)
        => /\ pc[r] = "done"
           /\ resp[r] = [status |-> 400, kind |-> "missing_fields"]
           /\ calls[r] = <<>>

-----------------------------------------------------------------------------
(* Properties of find-slots *)

\* The slots of the response, <<>> before it and when it is an error.
ReturnedSlots == IF fsResp.status = 200 THEN fsResp.slots ELSE <<>>

MinuteOfDay(t, tz) == (t + tz) % Day
Weekday(t, tz) == ((t + tz) \div Day) % 7 \in 1..5

\* C5: every returned slot lies entirely inside Monday-Friday 09:00-18:00, its
\* end as well as its start (read on the clock the engine itself uses, the
\* process's local time; stated for the positive slot durations).
C5_SlotsInsideBusinessHours ==
    fsReq.dur > 0 =>
    \A i \in DOMAIN ReturnedSlots :
        LET s == ReturnedSlots[i].start
            e == ReturnedSlots[i].end
            from == MinuteOfDay(s, processTz)
        IN  /\ Weekday(s, processTz)
            /\ from >= 9 * 60
            /\ from + (e - s) >= 9 * 60
            /\ from + (e - s) <= 18 * 60

\* C6: no returned slot overlaps a busy interval the free/busy query returned
\* (half-open intervals: touching a boundary is no overlap).
C6_NoSlotOverlapsBusy ==
    \A i \in DOMAIN ReturnedSlots : \A b \in fsBusy :
        ~(ReturnedSlots[i].start < b.end /\ ReturnedSlots[i].end > b.start)

\* C6, the case: a busy interval inside the window took candidates away, and
\* the returned slots touch it on both sides.
C6_SlotsAroundBusy ==
    \E b \in fsBusy :
        /\ fsReq.start < b.start /\ b.end < fsReq.end
        /\ \E i \in DOMAIN ReturnedSlots : ReturnedSlots[i].end = b.start
        /\ \E j \in DOMAIN ReturnedSlots : ReturnedSlots[j].start = b.end

\* C10: every returned slot starts, in the configured business timezone, on
\* Monday-Friday at or after 09:00 and before 18:00, whatever the timezone of
\* the server process.
C10_StartInBusinessTimezone ==
    \A i \in DOMAIN ReturnedSlots :
        LET s == ReturnedSlots[i].start IN
        /\ Weekday(s, TIMEZONE)
        /\ MinuteOfDay(s, TIMEZONE) >= 9 * 60
        /\ MinuteOfDay(s, TIMEZONE) < 18 * 60

\* C11: find-slots is deterministic and read-only: when the client repeats a
\* request and both calls see the same window, slot duration and busy data,
\* the second answer lists the same slots in the same order as the first; and
\* no step of find-slots changes the calendar.
C11_RepeatedCallSameSlots ==
    /\ [](/\ fsPc = "done"
          /\ fsPrev.resp.status = 200
          /\ fsResp.status = 200
          /\ fsPrev.req = fsReq
          /\ fsPrev.busy = fsBusy
          => fsResp.slots = fsPrev.resp.slots)
    /\ [][fsPc # "off" => calendar' = calendar /\ nextId' = nextId]_vars

\* C11, the case: a repeated call over a window with a busy interval, both
\* answers with the same two slots.
C11_CalledTwice ==
    /\ fsPc = "done"
    /\ fsPrev.resp.status = 200
    /\ fsResp.status = 200
    /\ fsPrev.req = fsReq
    /\ fsPrev.busy = fsBusy
    /\ fsBusy # {}
    /\ Len(fsResp.slots) = 2
    /\ Len(fsPrev.resp.slots) = 2

\* The candidates of the window, start + k*stepMin before the window's end, and
\* those the engine accepts: a weekday hour of 09..17 on the engine's clock and
\* no reported busy interval overlapping [t, t + dur).
Candidates ==
    {fsReq.start + k * stepMin : k \in 0..((fsReq.end - fsReq.start) \div stepMin)}
        \cap {t \in Int : t < fsReq.end}
Acceptable ==
    {t \in Candidates :
        /\ Weekday(t, processTz)
        /\ MinuteOfDay(t, processTz) \in (OpenHour * 60)..(CloseHour * 60 - 1)
        /\ \A b \in fsBusy : ~(t < b.end /\ t + fsReq.dur > b.start)}

\* C12: every find-slots call terminates; its answer holds at most 60 slots,
\* strictly ascending by start, and they are the earliest acceptable
\* candidates: all of them, or exactly the 60 earliest when there are more.
C12_TerminatesWithEarliestSixty ==
    /\ [](fsPc = "done" /\ fsResp.status = 200
          => LET slots == fsResp.slots
                 n == Len(slots) IN
             /\ n <= MaxSlots
             /\ \A i \in 1..(n - 1) : slots[i].start < slots[i + 1].start
             /\ \A i \in 1..n : slots[i].start \in Acceptable
             /\ \A t \in Acceptable :
                  \/ \E i \in 1..n : slots[i].start = t
                  \/ n = MaxSlots /\ t > slots[n].start)
    /\ (fsPc \in {"freebusy", "loop"} ~> fsPc = "done")

\* C12, the case: a window with more than 60 acceptable candidates, answered
\* with 60 slots.
C12_MoreThanSixtyAcceptable ==
    /\ fsPc = "done"
    /\ Len(ReturnedSlots) = MaxSlots
    /\ Cardinality(Acceptable) > MaxSlots
    /\ fsBusy # {}

\* The window lies inside the business hours of one weekday, read in the
\* business timezone.
WindowInBusinessDay ==
    /\ fsReq.start < fsReq.end
    /\ Weekday(fsReq.start, TIMEZONE)
    /\ (fsReq.start + TIMEZONE) \div Day = (fsReq.end + TIMEZONE) \div Day
    /\ MinuteOfDay(fsReq.start, TIMEZONE) >= OpenHour * 60
    /\ MinuteOfDay(fsReq.end, TIMEZONE) <= CloseHour * 60

\* C13: with no busy interval and a window inside the business hours of one
\* weekday, find-slots returns, in order, exactly the candidates
\* start + k*30 min whose start is before the window's end, each of the
\* requested duration (Mon 09:00-10:00, 30 min: 09:00-09:30 and 09:30-10:00).
\* Stated for a process that runs in the business timezone or in UTC.
C13_AllCandidatesOfFreeDay ==
    (/\ fsPc = "done"
     /\ processTz \in {TIMEZONE, 0}
     /\ fsResp.status = 200
     /\ fsBusy = {}
     /\ fsReq.dur > 0
     /\ WindowInBusinessDay)
    => LET slots == fsResp.slots IN
       /\ Len(slots) = Cardinality(Candidates)
       /\ \A i \in 1..Len(slots) :
            /\ slots[i].start = fsReq.start + (i - 1) * stepMin
            /\ slots[i].end = slots[i].start + fsReq.dur

\* Every instant of the window is on a Saturday or a Sunday of the business
\* timezone.
Weekend(t) == ((t + TIMEZONE) \div Day) % 7 \in {0, 6}
WindowOnWeekend ==
    /\ fsReq.start < fsReq.end
    /\ fsReq.end - fsReq.start <= Day
    /\ Weekend(fsReq.start)
    /\ Weekend(fsReq.end - 1)

\* C14: for a window that lies entirely on a Saturday or a Sunday, find-slots
\* returns the empty list whatever the busy data is.
C14_WeekendWindowIsEmpty ==
    (fsPc = "done" /\ fsResp.status = 200 /\ WindowOnWeekend)
    => fsResp.slots = <<>>

\* C15: the starts of the returned slots are window start + k*30 min only;
\* the engine never re-aligns a candidate to the end of a busy interval. With
\* the window starting at 09:00, 30-minute slots and 09:00-09:45 busy, the
\* first returned slot starts at 10:00.
C15_CandidatesOnTheGrid ==
    (fsPc = "done" /\ fsResp.status = 200)
    => LET slots == fsResp.slots IN
       /\ \A i \in 1..Len(slots) :
            /\ slots[i].start >= fsReq.start
            /\ slots[i].start < fsReq.end
            /\ (slots[i].start - fsReq.start) % stepMin = 0
       /\ (/\ fsReq.start = Base
           /\ fsReq.end > Base + 60
           /\ fsReq.dur = 30
           /\ fsBusy = {[start |-> Base, end |-> Base + 45]})
          => slots # <<>> /\ slots[1].start = Base + 60

-----------------------------------------------------------------------------
(* Properties of the credential check *)

\* The Credential Store holds no token Google accepts: none at all, or an
\* expired one.
NoUsableToken == tokens \in {"none", "expired"}

\* Every time of the request's body is one new Date() can parse.
TimesParse(r) ==
    \A f \in DOMAIN req[r] \cap {"requested_start", "newStartDateTimeISO"} :
        req[r][f] # Invalid

\* C16: when the Credential Store holds no usable token, find-slots, book,
\* reschedule and cancel answer 400 oauth_not_connected and make no calendar
\* query, no calendar write and no notification; an expired credential is
\* treated as an absent one.
C16_NoTokenNoCall ==
    /\ \A r \in Req :
         (/\ pc[r] = "done"
          /\ Made(r, "loadTokens")
          /\ NoUsableToken
          /\ TimesParse(r))
         => /\ resp[r] = [status |-> 400, kind |-> "oauth_not_connected"]
            /\ calls[r] = << <<"loadTokens", TRUE>> >>
    /\ (fsPc = "done" /\ NoUsableToken /\ fsBody.startDateTimeISO # Invalid)
       => fsResp = [status |-> 400, kind |-> "oauth_not_connected"]

-----------------------------------------------------------------------------
(* Properties of reschedule *)

IsReschedule(r) == Started(r) /\ "newStartDateTimeISO" \in DOMAIN req[r]

\* C20: reschedule checks the new interval against the live busy data without
\* leaving out the appointment being moved: when the new interval overlaps any
\* event of the calendar, the appointment itself included, the request is
\* answered 409 slot_unavailable, no patch is sent and no event is changed
\* (avail records whether an event intersected the interval when it was queried).
C20_OverlappingRescheduleRefused ==
    \A r \in Req :
        (IsReschedule(r) /\ avail[r] = "busy")
        => /\ pc[r] = "done"
           /\ resp[r] = [status |-> 409, kind |-> "slot_unavailable"]
           /\ ~Made(r, "patch")
           /\ EventsBy(r) = {}
           /\ calendar \in InitialCalendars

\* C20, the case: the only event of the calendar is moved half an hour later,
\* onto its own second half; the request is refused and the event stays.
C20_OverlapsItself ==
    /\ IsReschedule("r1")
    /\ pc["r1"] = "done"
    /\ resp["r1"].status = 409
    /\ calendar = {[id |-> 1, start |-> Base, end |-> Base + 60, by |-> "owner"]}
    /\ req["r1"].appointmentId = Value(1)
    /\ req["r1"].newStartDateTimeISO = Value(Base + 30)

-----------------------------------------------------------------------------
(* Properties of the gate *)

\* C17: with a signing secret configured, every request to a /vapi/* route
\* whose x-app-secret header is absent or different is answered 401 and never
\* reaches its handler; with no secret configured no request is refused; and
\* requests to /, /health, /oauth/* and /twilio/* are never refused. (A CORS
\* preflight, which no route serves, is not counted as a request to a route.)
C17_GateProtectsVapi ==
    gate.out # "idle"
    => /\ (/\ gate.secret # ""
            /\ gate.method # "OPTIONS"
            /\ StartsWith(gate.path, "vapi")
            /\ gate.header # gate.secret)
           => gate.out = "401"
       /\ gate.secret = "" => gate.out # "401"
       /\ (\/ gate.path \in {<<>>, <<"health">>}
            \/ StartsWith(gate.path, "oauth")
            \/ StartsWith(gate.path, "twilio"))
           => gate.out # "401"

-----------------------------------------------------------------------------
(* Properties of e164 *)

\* C18: phone normalisation removes every non-digit character and returns
\* "+" and the digits when they begin with "1", "+1" and the digits otherwise:
\* "8135551234" gives "+18135551234", "+18135551234" is unchanged,
\* "18135551234" gives "+18135551234".
C18_PhoneNormalized ==
    phone.done
    => LET kept == SelectSeq(phone.in, LAMBDA c : c \in Digits) IN
       /\ \A k \in 1..Len(phone.out) : k > 1 => phone.out[k] \in Digits
       /\ phone.out = (IF kept # <<>> /\ Head(kept) = "1" THEN <<"+">> ELSE <<"+", "1">>)
                           \o kept
       /\ phone.in \in {LocalNumber, <<"1">> \o LocalNumber, <<"+", "1">> \o LocalNumber}
          => phone.out = <<"+", "1">> \o LocalNumber

-----------------------------------------------------------------------------
(* Properties of isFree *)

\* C19: the availability decision of book and reschedule is the engine's
\* overlap test on the single candidate [start, end): whatever busy intervals
\* the free/busy query returns, the interval is treated as free exactly when
\* no returned b has start < b.end and end > b.start; a returned interval that
\* only touches the candidate's boundary does not make it unavailable.
C19_DecisionIsOverlapTest ==
    decision.done
    => (decision.free
        <=> ~\E b \in decision.busy :
                decision.start < b.end /\ decision.end > b.start)

-----------------------------------------------------------------------------
(* Properties of requests that follow one another *)

\* C21: a successful reschedule changes the existing appointment in place. No
\* step of a reschedule request creates or deletes an event or changes an event
\* other than the one it names; and when the request is answered 200, the
\* response carries the given appointmentId and the event of that id runs from
\* newStart to newStart + duration.
C21_RescheduleInPlace ==
    [][\A r \in Req :
        (IsReschedule(r)' /\ pc'[r] # pc[r])
        => LET id == req'[r].appointmentId.n IN
           /\ {ev.id : ev \in calendar'} = {ev.id : ev \in calendar}
           /\ Cardinality(calendar') = Cardinality(calendar)
           /\ \A ev \in calendar : ev.id # id => ev \in calendar'
           /\ (pc'[r] = "done" /\ resp'[r].status = 200)
              => /\ resp'[r].event_id = id
                 /\ \E ev \in calendar' :
                      /\ ev.id = id
                      /\ ev.start = req'[r].newStartDateTimeISO.n
                      /\ ev.end = req'[r].newStartDateTimeISO.n + RequestedDuration(r)'
    ]_vars

\* C21, the case: after a booking, an appointment was moved to a free hour
\* beside the booked event, the owner was told, and the request was answered 200.
C21_MovedBesideAnother ==
    /\ IsReschedule("r2") /\ pc["r2"] = "done" /\ resp["r2"].status = 200
    /\ req["r2"].duration_minutes = Value(60)
    /\ Made("r2", "sms_owner")
    /\ \E a \in calendar, b \in calendar :
         /\ a.id = req["r2"].appointmentId.n /\ a.by = "r2" /\ a.end - a.start = 60
         /\ b.by = "r1"

IsCancel(r) == Started(r) /\ DOMAIN req[r] = {"appointmentId"}

\* C22: a cancel request that names an appointmentId, the credentials being
\* usable, sends the calendar delete for that id as its first external call,
\* with no free/busy query before it; its only notification is the owner SMS
\* (no customer SMS, no email); no step of it changes an event of another id
\* or adds one; without appointmentId it is answered 400 missing_fields having
\* made no call at all.
C22_CancelDeletesAndTellsOwner ==
    /\ [](\A r \in Req :
            IsCancel(r)
            => /\ req[r].appointmentId = Undefined
                  => /\ pc[r] = "done"
                     /\ resp[r] = [status |-> 400, kind |-> "missing_fields"]
                     /\ calls[r] = <<>>
               /\ (req[r].appointmentId # Undefined /\ CredentialsUsable(impl, tokens))
                  => /\ pc[r] = "delete" => calls[r] = << <<"loadTokens", TRUE>> >>
                     /\ pc[r] # "delete"
                        => Len(calls[r]) >= 2 /\ calls[r][2][1] = "delete"
               /\ \A i \in DOMAIN calls[r] :
                    calls[r][i][1] \in {"loadTokens", "delete", "sms_owner"})
    /\ [][\A r \in Req :
            (IsCancel(r)' /\ pc'[r] # pc[r])
            => /\ calendar' \subseteq calendar
               /\ \A ev \in calendar :
                    ev.id # req'[r].appointmentId.n => ev \in calendar'
               /\ (pc[r] = "delete" /\ calls'[r][2][2])
                  => ~Known(calendar', req'[r].appointmentId.n)
       ]_vars

\* C22, the case: after a booking, the appointment the calendar started with
\* was cancelled; the booked event is still there and the owner was told.
C22_CancelledBesideAnother ==
    /\ IsCancel("r2") /\ pc["r2"] = "done" /\ resp["r2"].status = 200
    /\ req["r2"].appointmentId = Value(1)
    /\ Made("r2", "sms_owner")
    /\ ~Known(calendar, 1)
    /\ \E ev \in calendar : ev.by = "r1"

-----------------------------------------------------------------------------
(* Properties of the order of the steps *)

IsBook(r) == Started(r) /\ "requested_start" \in DOMAIN req[r]
Notifications == {"sms_customer", "sms_owner", "email"}

\* C23: the steps of book occur in the order Validating, CheckingAvailability,
\* Writing, Notifying, Done, and a failure exits where it occurs: an event is
\* inserted only after a free/busy query of the same request found the
\* interval free, a notification is sent only after the insert of the same
\* request has succeeded, and a failed call is the request's last call.
C23_BookStepsInOrder ==
    \A r \in Req :
        IsBook(r) =>
            \A i \in DOMAIN calls[r] :
                /\ calls[r][i] = <<"insert", TRUE>>
                   => /\ avail[r] = "free"
                      /\ \E j \in 1..(i - 1) : calls[r][j] = <<"freebusy", TRUE>>
                /\ calls[r][i][1] \in Notifications
                   => \E j \in 1..(i - 1) : calls[r][j] = <<"insert", TRUE>>
                /\ ~calls[r][i][2]
                   => /\ i = Len(calls[r])
                      /\ pc[r] = "done"
                      /\ resp[r] = [status |-> 500, kind |-> "internal_error"]

-----------------------------------------------------------------------------
(* Properties of the failure of the calendar gateway *)

GatewayCalls == {"freebusy", "insert", "patch", "delete"}
GatewayFailed(r) ==
    \E i \in DOMAIN calls[r] : calls[r][i][1] \in GatewayCalls /\ ~calls[r][i][2]

\* C24: when the free/busy query or the calendar write (insert, patch, delete)
\* of a book, reschedule or cancel request fails, the request ends with 500
\* internal_error, no notification is sent for it, the failing step leaves the
\* calendar as it was, and the calendar holds no event created or changed by
\* that request.
C24_GatewayFailureIsInternalError ==
    /\ [](\A r \in Req :
            GatewayFailed(r)
            => /\ pc[r] = "done"
               /\ resp[r] = [status |-> 500, kind |-> "internal_error"]
               /\ \A i \in DOMAIN calls[r] : calls[r][i][1] \notin Notifications
               /\ EventsBy(r) = {}
               /\ event[r] = 0)
    /\ [][\A r \in Req :
            (~GatewayFailed(r) /\ GatewayFailed(r)') => calendar' = calendar]_vars

\* C24, the case: after a booking, the patch of a reschedule was rejected by
\* the gateway; the request was answered 500 and the calendar still holds the
\* booked event and the appointment at its old time.
C24_PatchRejected ==
    /\ IsReschedule("r2") /\ pc["r2"] = "done"
    /\ calls["r2"][Len(calls["r2"])] = <<"patch", FALSE>>
    /\ resp["r2"].status = 500
    /\ \E a \in calendar, b \in calendar :
         /\ a.by = "r1"
         /\ b.by = "owner" /\ b.id = req["r2"].appointmentId.n

-----------------------------------------------------------------------------
(* Properties of the OAuth callback *)

\* C25: the OAuth callback answers with the confirmation text only when the
\* code was exchanged for tokens and the tokens were persisted in the
\* Credential Store, and with 500 when the exchange or the persistence failed;
\* hence after a callback that answered with the confirmation text, the next
\* book, find-slots, reschedule or cancel is not answered oauth_not_connected.
C25_ConfirmationMeansPersisted ==
    /\ oauth.out = "connected" => (oauth.exchanged /\ oauth.persisted)
    /\ (oauth.out # "idle" /\ ~(oauth.exchanged /\ oauth.persisted))
       => oauth.out = "error"
    /\ oauth.out = "connected"
       => /\ \A r \in Req : pc[r] = "done" => resp[r].kind # "oauth_not_connected"
          /\ fsPc = "done" => fsResp.kind # "oauth_not_connected"

-----------------------------------------------------------------------------
(* Properties of the time ranges *)

\* C26: every time range the system produces has its start strictly before
\* its end: every slot returned by find-slots and every event written to the
\* calendar by book or reschedule, whatever the requested duration (zero and
\* negative values included).
C26_StartBeforeEnd ==
    /\ \A i \in DOMAIN ReturnedSlots : ReturnedSlots[i].start < ReturnedSlots[i].end
    /\ \A ev \in calendar : ev.by \in Req => ev.start < ev.end

\* C27: when requests follow one another (each book, reschedule or cancel runs
\* to its response before the next arrives), the starting calendar has no
\* overlapping events, every duration is positive and the free/busy query
\* reports exactly the events intersecting the queried range, no two events
\* of the calendar overlap (as half-open intervals).
C27_SerializedNoOverlap ==
    \A a \in calendar, b \in calendar :
        a.id # b.id => ~Intersects(a.start, a.end, b.start, b.end)

\* C28: every slot returned by find-slots lies inside the search window of the
\* request: its start is at or after the window's start and its end at or
\* before the window's end, whatever the slot duration (longer than the step
\* or than what is left of the window included).
C28_SlotsInsideWindow ==
    \A i \in DOMAIN ReturnedSlots :
        /\ ReturnedSlots[i].start >= fsReq.start
        /\ ReturnedSlots[i].end <= fsReq.end

=============================================================================
